---------------------------- MODULE Spec2Model ----------------------------
(***************************************************************************)
(* A model of plcstub.c: the tag registry's public API (create, read,      *)
(* typed get/set, status, callback registration) run by concurrent         *)
(* threads.  Each thread is either idle or at a labelled position inside   *)
(* one API call; one action is one atomic step of the C code.              *)
(***************************************************************************)
EXTENDS Integers, Sequences, FiniteSets, TLC

(* ------------------------------ bounds -------------------------------- *)

\* number of API calls made in one behaviour, by concurrent threads
MaxOps == 4
\* number of API calls made in one behaviour, by one thread alone
MaxSeqOps == 3
\* number of nodes the registry can hold
MaxTags == 2

Threads == {"a", "b"}

(* ------------------------ constants of the API ------------------------ *)

\* status codes (libplctag.h), as plcstub.c names them
PLCTAG_STATUS_OK == 0
PLCTAG_ERR_BAD_PARAM == -7
PLCTAG_ERR_NOT_FOUND == -19

NULL == "NULL"
NoOwner == "none"
NoNode == 0

\* the events plcstub.c passes to a callback
PLCTAG_EVENT_READ_STARTED == "READ_STARTED"
PLCTAG_EVENT_READ_COMPLETED == "READ_COMPLETED"
PLCTAG_EVENT_WRITE_STARTED == "WRITE_STARTED"
PLCTAG_EVENT_WRITE_COMPLETED == "WRITE_COMPLETED"
PLCTAG_EVENT_ABORTED == "ABORTED"

(* ------------------------------ inputs -------------------------------- *)

\* callback functions a client may register
Handlers == {"h1", "h2"}
\* the accessor families generated by GETTER/SETTER, by width
Types == {"uint8", "uint16"}
\* values written by clients, per type
ValuesOf(T) == IF T = "uint8" THEN {7} ELSE {258}
\* the address the local `val` of plc_tag_set_<T> has on each thread's stack
StackAddr(th) == IF th = "a" THEN 4112 ELSE 4376
\* what an uninitialized local `val` of plc_tag_get_<T> can hold
Indeterminate == {0, 85}

\* a token of the attribute string: key=val, or a bare key (val = NoEq)
NoEq == "<no =>"
Tok(k, v) == [key |-> k, val |-> v]
Attribs ==
    { <<Tok("name", "Foo")>>,
      <<Tok("name", "Foo"), Tok("elem_size", "1"), Tok("elem_count", "2")>>,
      <<Tok("elem_size", "1")>>,
      <<Tok("bogus", NoEq), Tok("name", "Foo")>>,
      <<Tok("protocol", NoEq), Tok("name", "Foo")>>,
      <<Tok("protocol", NoEq), Tok("bogus", NoEq)>>,
      <<Tok("name", "Foo"), Tok("elem_count", "x")>>,
      <<Tok("name", "Foo"), Tok("elem_size", "0")>> }

\* The arguments clients call with.  Tag id 0 is what plc_tag_create
\* returns; id 1 is the id of a node under construction and is never returned.
\* Threads running concurrently draw from fewer arguments than a thread alone.
Concurrent ==
    [threads |-> Threads, ops |-> MaxOps, tags |-> {0, 1}, offsets |-> {0, 2},
     timeouts |-> {0}, types |-> {"uint16"},
     attribs |-> { <<Tok("name", "Foo")>> }]
Alone ==
    [threads |-> {"a"}, ops |-> MaxSeqOps, tags |-> {0, 1}, offsets |-> {0, 1, 2},
     timeouts |-> {-1, 0}, types |-> Types, attribs |-> Attribs]

(* ------------------------------- state -------------------------------- *)

VARIABLES
    nodes,      \* the registry: the sequence of tag_tree_node, in allocation order
    mtx,        \* mtx[n]: the thread owning node n's mutex, or NoOwner
    pc,         \* pc[th]: "idle" or the label of th's next step
    op,         \* op[th]: the call th is in (or made last) and its arguments
    t,          \* t[th]: the node th's lookup returned (NoNode = NULL)
    events,     \* events[th]: the callback invocations th's current call made
    result,     \* result[th]: what th's last call returned to its caller
    halted,     \* the process has crashed or exited
    overrun,    \* an accessor touched bytes outside a node's buffer
    nops,       \* number of calls made so far
    created,    \* history: the values successful plc_tag_create calls returned
    last,       \* history: the set<T> that returned Ok, with no call but get<T> since
    hist,       \* history, per thread: facts recorded when its call started
    cand        \* history, per node: handlers a finished registration made current

vars == <<nodes, mtx, pc, op, t, events, result, halted, overrun, nops,
          created, last, hist, cand>>


(* --------------------------- pure functions --------------------------- *)

Range(s) == { s[i] : i \in DOMAIN s }

\* sizeof(type) of the GETTER/SETTER expansions
SizeOf(T) == IF T = "uint8" THEN 1 ELSE 2

RECURSIVE Pow256(_)
Pow256(k) == IF k = 0 THEN 1 ELSE 256 * Pow256(k - 1)

\* the object representation of v as a T: SizeOf(T) bytes, little-endian
Encode(T, v) == [ i \in 1..SizeOf(T) |-> (v \div Pow256(i - 1)) % 256 ]

\* atoi(val) on the strings the attribute values are drawn from
atoi(s) == CASE s = "1" -> 1 [] s = "2" -> 2 [] OTHER -> 0

\* plcstub_<T>_getter_cb: *(type *)val = *(type *)(buf + offset).  The
\* result is the set of values the read can give: bytes past the end of
\* buf are not the buffer's and can hold anything.
ByteAt(buf, i) == IF i \in 1..Len(buf) THEN {buf[i]} ELSE Indeterminate
getter_cb(buf, offset, T) ==
    IF SizeOf(T) = 1
    THEN ByteAt(buf, offset + 1)
    ELSE { lo + 256 * hi : lo \in ByteAt(buf, offset + 1),
                           hi \in ByteAt(buf, offset + 2) }

\* plcstub_<T>_setter_cb: *(type *)(buf + offset) = *(type *)val, where
\* src is the value found at val.  Bytes past the end of buf land outside.
setter_cb(buf, offset, T, src) ==
    [ i \in 1..Len(buf) |->
        IF i > offset /\ i <= offset + SizeOf(T)
        THEN Encode(T, src)[i - offset]
        ELSE buf[i] ]

\* the accessor touches a byte outside buf
Outside(buf, offset, T) == offset < 0 \/ offset + SizeOf(T) > Len(buf)

\* The attribute loop of plc_tag_create, lines 181-219, from token i on.
\* st.stop: `goto done` was taken; st.fault: line 197 wrote through val = NULL.
RECURSIVE ParseFrom(_, _, _)
ParseFrom(attrib, i, st) ==
    IF i > Len(attrib) \/ st.stop \/ st.fault THEN st
    ELSE LET kv == attrib[i]
             nxt ==
               IF kv.val = NoEq
               THEN IF kv.key # "protocol"
                    THEN [st EXCEPT !.ret = PLCTAG_ERR_BAD_PARAM, !.stop = TRUE]
                    ELSE [st EXCEPT !.fault = TRUE]
               ELSE CASE kv.key = "name" -> [st EXCEPT !.name = kv.val]
                      [] kv.key = "elem_size" -> [st EXCEPT !.elem_size = atoi(kv.val)]
                      [] kv.key = "elem_count" -> [st EXCEPT !.elem_count = atoi(kv.val)]
                      [] OTHER -> st
         IN  ParseFrom(attrib, i + 1, nxt)

\* plc_tag_create up to line 225: the locals after parsing and the name check
ParseAttrib(attrib) ==
    LET st == ParseFrom(attrib, 1,
                 [ret |-> PLCTAG_STATUS_OK, name |-> NULL, elem_size |-> 2,
                  elem_count |-> 1, stop |-> FALSE, fault |-> FALSE])
    IN  IF ~st.stop /\ ~st.fault /\ st.name = NULL
        THEN [st EXCEPT !.ret = PLCTAG_ERR_BAD_PARAM, !.stop = TRUE]
        ELSE st

(* --------------------------- the tag tree ----------------------------- *)

\* the node tag_tree_create_node returns: its id allocated, the rest zeroed
NewNode(id) ==
    [tag_id |-> id, name |-> NULL, elem_size |-> 0, elem_count |-> 0,
     data |-> <<>>, alloc |-> FALSE, cb |-> NULL]

\* next id: the registry's maximum id + 1, or 1 when it is empty
NextId ==
    IF nodes = <<>> THEN 1
    ELSE (CHOOSE m \in { nodes[i].tag_id : i \in DOMAIN nodes } :
             \A i \in DOMAIN nodes : nodes[i].tag_id <= m) + 1

\* tag_tree_lookup(id): the nodes a search for id can return, NoNode if none.
\* The tree is keyed by the nodes' tag_id field; when several nodes carry the
\* same id, which one the search meets depends on the shape of the tree.
tag_tree_lookup(id) ==
    LET found == { n \in DOMAIN nodes : nodes[n].tag_id = id }
    IN  IF found = {} THEN {NoNode} ELSE found

\* name, sizes and buffer of the node are all set
Complete(n) == nodes[n].name # NULL /\ nodes[n].alloc


(* ------------------------- calls and returns -------------------------- *)

NoCall == [name |-> "none"]
NoResult == [kind |-> "none"]
Status(c) == [kind |-> "status", code |-> c]
Value(v) == [kind |-> "value", val |-> v]

Registrations == {"register_callback", "unregister_callback"}
Accesses == {"read", "get", "set"}

\* the call o of thread th, with no argument it does not use
Call(nm) == [name |-> nm, tag |-> -1, offset |-> 0, type |-> "none", val |-> 0,
             addr |-> 0, cb |-> NULL, timeout |-> 0, attrib |-> <<>>]

Running(th) == pc[th] # "idle"

\* the registrations in flight on node n, other than th's
RegsOn(n, th) ==
    { y \in Threads \ {th} :
        Running(y) /\ op[y].name \in Registrations /\ t[y] = n }

Init ==
    /\ nodes = <<>>
    /\ mtx = <<>>
    /\ pc = [th \in Threads |-> "idle"]
    /\ op = [th \in Threads |-> NoCall]
    /\ t = [th \in Threads |-> NoNode]
    /\ events = [th \in Threads |-> <<>>]
    /\ result = [th \in Threads |-> NoResult]
    /\ halted = FALSE
    /\ overrun = FALSE
    /\ nops = 0
    /\ created = <<>>
    /\ last = NoCall
    /\ hist = [th \in Threads |->
                 [prev |-> NoCall, complete |-> TRUE, ov |-> {}, allowed |-> {}]]
    /\ cand = <<>>

\* Thread th enters call o with arguments from I, its lookup (if it got that far) returned node n;
\* it goes on at label l, or has returned res when l = "idle".
Start(th, I, o, n, l, res) ==
    /\ ~halted
    /\ th \in I.threads
    /\ pc[th] = "idle"
    /\ nops < I.ops
    /\ nops' = nops + 1
    /\ pc' = [pc EXCEPT ![th] = l]
    /\ op' = [op EXCEPT ![th] = o]
    /\ t' = [t EXCEPT ![th] = n]
    /\ events' = [events EXCEPT ![th] = <<>>]
    /\ result' = [result EXCEPT ![th] = res]
    /\ last' = IF o.name = "get" THEN last ELSE NoCall
    /\ LET reg == o.name \in Registrations /\ n # NoNode /\ l # "idle"
       IN  /\ hist' = [ y \in Threads |->
                IF y = th
                THEN [prev |-> last,
                      complete |-> (n = NoNode \/ Complete(n)),
                      ov |-> IF reg
                             THEN {o.cb} \cup { op[z].cb : z \in RegsOn(n, th) }
                             ELSE {},
                      allowed |-> IF o.name \in Accesses /\ n # NoNode
                                  THEN cand[n] ELSE {}]
                ELSE IF reg /\ Running(y) /\ t[y] = n
                     THEN IF op[y].name \in Registrations
                          THEN [hist[y] EXCEPT !.ov = @ \cup {o.cb}]
                          ELSE IF op[y].name \in Accesses
                               THEN [hist[y] EXCEPT !.allowed = @ \cup {o.cb}]
                               ELSE hist[y]
                     ELSE hist[y] ]
           /\ cand' = IF reg THEN [cand EXCEPT ![n] = @ \cup {o.cb}] ELSE cand

\* Thread th is at label l of a running process.
At(th, l) == ~halted /\ pc[th] = l

\* Thread th goes from label l to label l2 inside its call.
Goto(th, l, l2) ==
    /\ ~halted
    /\ pc[th] = l
    /\ pc' = [pc EXCEPT ![th] = l2]

\* Thread th, at label l, returns res to its caller.
Return(th, l, res) ==
    /\ Goto(th, l, "idle")
    /\ result' = [result EXCEPT ![th] = res]
    /\ last' = IF /\ op[th].name = "set"
                  /\ res = Status(PLCTAG_STATUS_OK)
                  /\ \A z \in Threads \ {th} : ~Running(z)
               THEN [name |-> "set", node |-> t[th], offset |-> op[th].offset,
                     type |-> op[th].type, val |-> op[th].val, serial |-> nops]
               ELSE last

\* t->cb(tag, event, status): the handler cb is invoked by thread th
Fire(th, cb, ev, st) ==
    events' = [events EXCEPT ![th] =
                  Append(@, [h |-> cb, tag |-> op[th].tag, event |-> ev, status |-> st])]

\* MTX_LOCK(&t->mtx) / MTX_UNLOCK(&t->mtx) by thread th on node n
MTX_LOCK(th, n) == mtx[n] = NoOwner /\ mtx' = [mtx EXCEPT ![n] = th]
MTX_UNLOCK(th, n) == mtx' = [mtx EXCEPT ![n] = NoOwner]


(* --------------------------- plc_tag_create --------------------------- *)

\* lines 161-225: the attribute string is parsed.  A bare `protocol` token
\* passes the test of line 189 with val = NULL and line 197 writes through it.
cr_call(th, I) ==
    \E attrib \in I.attribs :
        LET st == ParseAttrib(attrib)
            o == [Call("create") EXCEPT !.attrib = attrib]
        IN  /\ IF st.fault
               THEN /\ Start(th, I, o, NoNode, "cr_fault", NoResult)
                    /\ halted' = TRUE
               ELSE IF st.ret # PLCTAG_STATUS_OK
               THEN /\ Start(th, I, o, NoNode, "idle", Status(st.ret))
                    /\ UNCHANGED halted
               ELSE /\ Len(nodes) + Cardinality({ y \in Threads : pc[y] = "cr_node" })
                          < MaxTags
                    /\ Start(th, I, o, NoNode, "cr_node", NoResult)
                    /\ UNCHANGED halted
            /\ UNCHANGED <<nodes, mtx, overrun, created>>

\* line 227: tag = tag_tree_create_node(), which allocates the id and inserts
\* the node into the tree
cr_node(th) ==
    /\ Goto(th, "cr_node", "cr_lock")
    /\ nodes' = Append(nodes, NewNode(NextId))
    /\ mtx' = Append(mtx, NoOwner)
    /\ cand' = Append(cand, {NULL})
    /\ t' = [t EXCEPT ![th] = Len(nodes) + 1]
    /\ UNCHANGED <<op, events, result, halted, overrun, nops, created, last, hist>>

\* line 232
cr_lock(th) ==
    /\ Goto(th, "cr_lock", "cr_init")
    /\ MTX_LOCK(th, t[th])
    /\ UNCHANGED <<nodes, op, t, events, result, halted, overrun, nops,
                   created, last, hist, cand>>

\* lines 233-244: the fields are set; calloc of zero bytes returns NULL or an
\* empty block, and NULL ends the process in err(1)
cr_init(th) ==
    LET st == ParseAttrib(op[th].attrib)
        n == t[th]
        set == [nodes[n] EXCEPT !.name = "DUMMY_AQUA_DATA_" \o st.name,
                                !.tag_id = st.ret,
                                !.elem_count = st.elem_count,
                                !.elem_size = st.elem_size]
        bytes == st.elem_count * st.elem_size
    IN  /\ At(th, "cr_init")
        /\ Goto(th, "cr_init", "cr_unlock")
        /\ \/ /\ nodes' = [nodes EXCEPT ![n] =
                    [set EXCEPT !.data = [i \in 1..bytes |-> 0], !.alloc = TRUE]]
              /\ UNCHANGED halted
           \/ /\ bytes = 0
              /\ nodes' = [nodes EXCEPT ![n] = set]
              /\ halted' = TRUE
        /\ UNCHANGED <<mtx, op, t, events, result, overrun, nops, created,
                       last, hist, cand>>

\* lines 245-249: unlock, return ret
cr_unlock(th) ==
    LET st == ParseAttrib(op[th].attrib)
    IN  /\ At(th, "cr_unlock")
        /\ Return(th, "cr_unlock", Status(st.ret))
        /\ MTX_UNLOCK(th, t[th])
        /\ created' = Append(created, st.ret)
        /\ UNCHANGED <<nodes, op, t, events, halted, overrun, nops, hist, cand>>

plc_tag_create(th, I) ==
    \/ cr_call(th, I)
    \/ cr_node(th)
    \/ cr_lock(th)
    \/ cr_init(th)
    \/ cr_unlock(th)

(* ---------------------------- plc_tag_read ---------------------------- *)

\* a read that looks the tag up before it checks the timeout
r_call_lookup_first(th, I) ==
    \E tag \in I.tags, timeout \in I.timeouts :
        LET o == [Call("read") EXCEPT !.tag = tag, !.timeout = timeout]
        IN  /\ \E n \in tag_tree_lookup(tag) :
                 IF n = NoNode
                 THEN Start(th, I, o, NoNode, "idle", Status(PLCTAG_ERR_NOT_FOUND))
                 ELSE IF timeout < 0
                      THEN Start(th, I, o, NoNode, "idle", Status(PLCTAG_ERR_BAD_PARAM))
                      ELSE Start(th, I, o, n, "r_check", NoResult)
            /\ UNCHANGED <<nodes, mtx, halted, overrun, created>>

\* lines 263-272: the timeout check, then the lookup
r_call(th, I) ==
    \E tag \in I.tags, timeout \in I.timeouts :
        LET o == [Call("read") EXCEPT !.tag = tag, !.timeout = timeout]
        IN  /\ IF timeout < 0
               THEN Start(th, I, o, NoNode, "idle", Status(PLCTAG_ERR_BAD_PARAM))
               ELSE \E n \in tag_tree_lookup(tag) :
                      IF n = NoNode
                      THEN Start(th, I, o, NoNode, "idle", Status(PLCTAG_ERR_NOT_FOUND))
                      ELSE Start(th, I, o, n, "r_check", NoResult)
            /\ UNCHANGED <<nodes, mtx, halted, overrun, created>>

\* line 274: if (t->cb)
r_check(th) ==
    /\ At(th, "r_check")
    /\ IF nodes[t[th]].cb # NULL
       THEN Goto(th, "r_check", "r_started") /\ UNCHANGED <<result, last>>
       ELSE Return(th, "r_check", Status(PLCTAG_STATUS_OK))
    /\ UNCHANGED <<nodes, mtx, op, t, events, halted, overrun, nops, created,
                   hist, cand>>

\* line 277: t->cb(tag_id, PLCTAG_EVENT_READ_STARTED, PLCTAG_STATUS_OK); the
\* field is read again, and a call through NULL ends the process
r_started(th) ==
    LET cb == nodes[t[th]].cb
    IN  /\ At(th, "r_started")
        /\ IF cb = NULL
           THEN Goto(th, "r_started", "r_fault") /\ halted' = TRUE
                /\ UNCHANGED events
           ELSE Goto(th, "r_started", "r_completed")
                /\ Fire(th, cb, PLCTAG_EVENT_READ_STARTED, PLCTAG_STATUS_OK)
                /\ UNCHANGED halted
        /\ UNCHANGED <<nodes, mtx, op, t, result, overrun, nops, created, last,
                       hist, cand>>

\* lines 280-283: t->cb(tag_id, PLCTAG_EVENT_READ_COMPLETED, PLCTAG_STATUS_OK)
r_completed(th) ==
    LET cb == nodes[t[th]].cb
    IN  /\ At(th, "r_completed")
        /\ IF cb = NULL
           THEN Goto(th, "r_completed", "r_fault") /\ halted' = TRUE
                /\ UNCHANGED <<events, result, last>>
           ELSE Return(th, "r_completed", Status(PLCTAG_STATUS_OK))
                /\ Fire(th, cb, PLCTAG_EVENT_READ_COMPLETED, PLCTAG_STATUS_OK)
                /\ UNCHANGED halted
        /\ UNCHANGED <<nodes, mtx, op, t, overrun, nops, created, hist, cand>>

plc_tag_read(th, I) ==
    \/ r_call(th, I)
    \/ r_check(th)
    \/ r_started(th)
    \/ r_completed(th)


(* ------------------- plcstub_get_impl, plc_tag_get_<T> ---------------- *)

\* the size in bytes the bounds check of lines 71 and 117 compares with
Bound(n) == nodes[n].elem_count * nodes[n].elem_size

\* lines 32-34 and 54-58: the lookup; on NULL the impl returns
\* PLCTAG_ERR_NOT_FOUND, which plc_tag_get_<T> drops: it returns its local
\* val, never assigned.  (A call that ends at the lookup has used none of its
\* other arguments, and they are not recorded.)
g_call(th, I) ==
    \E tag \in I.tags : \E n \in tag_tree_lookup(tag) :
        /\ IF n = NoNode
           THEN \E v \in Indeterminate :
                  Start(th, I, [Call("get") EXCEPT !.tag = tag], NoNode, "idle",
                        Value(v))
           ELSE \E offset \in I.offsets, T \in I.types :
                  Start(th, I, [Call("get") EXCEPT !.tag = tag, !.offset = offset,
                                                   !.type = T],
                        n, "g_lock", NoResult)
        /\ UNCHANGED <<nodes, mtx, halted, overrun, created>>

\* a get that takes the first node's mutex as one lock for the whole registry
g_lock_registry(th) ==
    /\ Goto(th, "g_lock", "g_started")
    /\ MTX_LOCK(th, 1)
    /\ UNCHANGED <<nodes, op, t, events, result, halted, overrun, nops,
                   created, last, hist, cand>>

\* line 63
g_lock(th) ==
    /\ Goto(th, "g_lock", "g_started")
    /\ MTX_LOCK(th, t[th])
    /\ UNCHANGED <<nodes, op, t, events, result, halted, overrun, nops,
                   created, last, hist, cand>>

\* a get that goes on to the bounds check without telling the callback
g_started_silent(th) ==
    /\ At(th, "g_started")
    /\ Goto(th, "g_started", "g_access")
    /\ UNCHANGED <<nodes, mtx, op, t, events, result, halted, overrun, nops,
                   created, last, hist, cand>>

\* lines 65-69
g_started(th) ==
    LET cb == nodes[t[th]].cb
    IN  /\ At(th, "g_started")
        /\ Goto(th, "g_started", "g_access")
        /\ IF cb # NULL
           THEN Fire(th, cb, PLCTAG_EVENT_READ_STARTED, PLCTAG_STATUS_OK)
           ELSE UNCHANGED events
        /\ UNCHANGED <<nodes, mtx, op, t, result, halted, overrun, nops,
                       created, last, hist, cand>>

\* lines 71-82: out of bounds, the Aborted event and `return
\* PLCTAG_ERR_BAD_PARAM` with the mutex still locked (the wrapper returns its
\* unassigned val); in bounds, fn(t->data, offset, buf) fills the wrapper's val
g_access(th) ==
    LET n == t[th]
        cb == nodes[n].cb
        o == op[th]
    IN  /\ At(th, "g_access")
        /\ IF o.offset >= Bound(n)
           THEN /\ \E v \in Indeterminate : Return(th, "g_access", Value(v))
                /\ IF cb # NULL
                   THEN Fire(th, cb, PLCTAG_EVENT_ABORTED, PLCTAG_ERR_BAD_PARAM)
                   ELSE UNCHANGED events
                /\ UNCHANGED <<op, overrun>>
           ELSE /\ Goto(th, "g_access", "g_completed")
                /\ \E v \in getter_cb(nodes[n].data, o.offset, o.type) :
                      op' = [op EXCEPT ![th].val = v]
                /\ overrun' = (overrun \/ Outside(nodes[n].data, o.offset, o.type))
                /\ UNCHANGED <<events, result, last>>
        /\ UNCHANGED <<nodes, mtx, t, halted, nops, created, hist, cand>>

\* lines 84-92 and 35: the Completed event, unlock, return val
g_completed(th) ==
    LET cb == nodes[t[th]].cb
    IN  /\ At(th, "g_completed")
        /\ Return(th, "g_completed", Value(op[th].val))
        /\ IF cb # NULL
           THEN Fire(th, cb, PLCTAG_EVENT_READ_COMPLETED, PLCTAG_STATUS_OK)
           ELSE UNCHANGED events
        /\ MTX_UNLOCK(th, t[th])
        /\ UNCHANGED <<nodes, op, t, halted, overrun, nops, created, hist, cand>>

plcstub_get_impl(th, I) ==
    \/ g_call(th, I)
    \/ g_lock(th)
    \/ g_started(th)
    \/ g_access(th)
    \/ g_completed(th)

(* ------------------- plcstub_set_impl, plc_tag_set_<T> ---------------- *)

\* lines 45-46 and 100-104: val lives at address addr of the caller's stack
s_call(th, I) ==
    \E tag \in I.tags : \E n \in tag_tree_lookup(tag) :
        /\ IF n = NoNode
           THEN Start(th, I, [Call("set") EXCEPT !.tag = tag], NoNode, "idle",
                      Status(PLCTAG_ERR_NOT_FOUND))
           ELSE \E offset \in I.offsets, T \in I.types :
                  \E v \in ValuesOf(T) :
                    Start(th, I, [Call("set") EXCEPT !.tag = tag, !.offset = offset,
                                                     !.type = T, !.val = v,
                                                     !.addr = StackAddr(th)],
                          n, "s_lock", NoResult)
        /\ UNCHANGED <<nodes, mtx, halted, overrun, created>>

\* line 109
s_lock(th) ==
    /\ Goto(th, "s_lock", "s_started")
    /\ MTX_LOCK(th, t[th])
    /\ UNCHANGED <<nodes, op, t, events, result, halted, overrun, nops,
                   created, last, hist, cand>>

\* lines 111-115
s_started(th) ==
    LET cb == nodes[t[th]].cb
    IN  /\ At(th, "s_started")
        /\ Goto(th, "s_started", "s_access")
        /\ IF cb # NULL
           THEN Fire(th, cb, PLCTAG_EVENT_WRITE_STARTED, PLCTAG_STATUS_OK)
           ELSE UNCHANGED events
        /\ UNCHANGED <<nodes, mtx, op, t, result, halted, overrun, nops,
                       created, last, hist, cand>>

\* What the setter finds at the pointer line 128 hands it.  `value` already
\* is the address of the wrapper's val, and line 128 passes &value: the setter
\* copies sizeof(T) bytes of the pointer `value`, i.e. of the address of val.
SetSource(o) == o.addr % Pow256(SizeOf(o.type))

\* the bytes of a store of src as a T at buf + offset that fall past the
\* end of buf
Spill(buf, offset, T, src) ==
    LET e == Encode(T, src)
        first == IF Len(buf) - offset < 0 THEN 0 ELSE Len(buf) - offset
    IN  SubSeq(e, first + 1, Len(e))

\* buf after the bytes were stored over its beginning
Smash(buf, bytes) ==
    [ i \in 1..Len(buf) |-> IF i <= Len(bytes) THEN bytes[i] ELSE buf[i] ]

\* A store past the end of node n's buffer is undefined: the bytes land in
\* whatever the allocator placed there, memory nobody uses (NoNode) or the
\* buffer of another node.
Victims(n, offset, T) ==
    IF Outside(nodes[n].data, offset, T)
    THEN {NoNode} \cup { m \in DOMAIN nodes \ {n} :
                            nodes[m].alloc /\ Len(nodes[m].data) > 0 }
    ELSE {NoNode}

\* lines 117-128
s_access(th) ==
    LET n == t[th]
        cb == nodes[n].cb
        o == op[th]
    IN  /\ At(th, "s_access")
        /\ IF o.offset >= Bound(n)
           THEN /\ Return(th, "s_access", Status(PLCTAG_ERR_BAD_PARAM))
                /\ IF cb # NULL
                   THEN Fire(th, cb, PLCTAG_EVENT_ABORTED, PLCTAG_ERR_BAD_PARAM)
                   ELSE UNCHANGED events
                /\ UNCHANGED <<nodes, overrun>>
           ELSE /\ Goto(th, "s_access", "s_completed")
                /\ \E m \in Victims(n, o.offset, o.type) :
                     nodes' = [ k \in DOMAIN nodes |->
                        IF k = n
                        THEN [nodes[k] EXCEPT !.data =
                                setter_cb(@, o.offset, o.type, SetSource(o))]
                        ELSE IF k = m
                        THEN [nodes[k] EXCEPT !.data =
                                Smash(@, Spill(nodes[n].data, o.offset, o.type,
                                               SetSource(o)))]
                        ELSE nodes[k] ]
                /\ overrun' = (overrun \/ Outside(nodes[n].data, o.offset, o.type))
                /\ UNCHANGED <<events, result, last>>
        /\ UNCHANGED <<mtx, op, t, halted, nops, created, hist, cand>>

\* lines 130-138
s_completed(th) ==
    LET cb == nodes[t[th]].cb
    IN  /\ At(th, "s_completed")
        /\ Return(th, "s_completed", Status(PLCTAG_STATUS_OK))
        /\ IF cb # NULL
           THEN Fire(th, cb, PLCTAG_EVENT_WRITE_COMPLETED, PLCTAG_STATUS_OK)
           ELSE UNCHANGED events
        /\ MTX_UNLOCK(th, t[th])
        /\ UNCHANGED <<nodes, op, t, halted, overrun, nops, created, hist, cand>>

plcstub_set_impl(th, I) ==
    \/ s_call(th, I)
    \/ s_lock(th)
    \/ s_started(th)
    \/ s_access(th)
    \/ s_completed(th)

(* ------- plc_tag_register_callback, plc_tag_unregister_callback ------- *)

\* lines 291-295; cb = NULL is plc_tag_unregister_callback (line 331)
rg_call(th, I) ==
    \E tag \in I.tags, unreg \in BOOLEAN : \E n \in tag_tree_lookup(tag) :
        LET o == [Call(IF unreg THEN "unregister_callback" ELSE "register_callback")
                    EXCEPT !.tag = tag]
        IN  /\ IF n = NoNode
               THEN Start(th, I, o, NoNode, "idle", Status(PLCTAG_ERR_NOT_FOUND))
               ELSE \E cb \in IF unreg THEN {NULL} ELSE Handlers :
                      Start(th, I, [o EXCEPT !.cb = cb], n, "rg_lock", NoResult)
            /\ UNCHANGED <<nodes, mtx, halted, overrun, created>>

\* line 297
rg_lock(th) ==
    /\ Goto(th, "rg_lock", "rg_store")
    /\ MTX_LOCK(th, t[th])
    /\ UNCHANGED <<nodes, op, t, events, result, halted, overrun, nops,
                   created, last, hist, cand>>

\* a registration that keeps a callback already registered
StoredCb_keep(old, cb) == IF old # NULL /\ cb # NULL THEN old ELSE cb

\* the value line 298 stores into t->cb
StoredCb(old, cb) == cb

\* line 298: t->cb = cb
rg_store(th) ==
    /\ Goto(th, "rg_store", "rg_unlock")
    /\ nodes' = [nodes EXCEPT ![t[th]].cb = StoredCb(@, op[th].cb)]
    /\ UNCHANGED <<mtx, op, t, events, result, halted, overrun, nops,
                   created, last, hist, cand>>

\* lines 299-301
rg_unlock(th) ==
    /\ Return(th, "rg_unlock", Status(PLCTAG_STATUS_OK))
    /\ MTX_UNLOCK(th, t[th])
    /\ cand' = [cand EXCEPT ![t[th]] = hist[th].ov]
    /\ UNCHANGED <<nodes, op, t, events, halted, overrun, nops, created, hist>>

plc_tag_register_callback(th, I) ==
    \/ rg_call(th, I)
    \/ rg_lock(th)
    \/ rg_store(th)
    \/ rg_unlock(th)

(* --------------------------- plc_tag_status --------------------------- *)

\* lines 315-325
plc_tag_status(th, I) ==
    \E tag \in I.tags :
        LET o == [Call("status") EXCEPT !.tag = tag]
        IN  /\ \E n \in tag_tree_lookup(tag) :
                 IF n = NoNode
                 THEN Start(th, I, o, NoNode, "idle", Status(PLCTAG_ERR_NOT_FOUND))
                 ELSE Start(th, I, o, n, "idle", Status(PLCTAG_STATUS_OK))
            /\ UNCHANGED <<nodes, mtx, halted, overrun, created>>

(* -------------------------- the specification ------------------------- *)

\* one step of one thread, calling with arguments from I
Step(I) ==
    \E th \in Threads :
        \/ plc_tag_create(th, I)
        \/ plc_tag_read(th, I)
        \/ plcstub_get_impl(th, I)
        \/ plcstub_set_impl(th, I)
        \/ plc_tag_register_callback(th, I)
        \/ plc_tag_status(th, I)

\* threads calling concurrently
Next == Step(Concurrent)
Spec == Init /\ [][Next]_vars

\* one thread calling, one call after the other
NextSeq == Step(Alone)
SpecSeq == Init /\ [][NextSeq]_vars


(* ------------------------------ claims -------------------------------- *)

\* thread th has returned from the call op[th]
Done(th) == pc[th] = "idle" /\ op[th].name # "none"

Ev(cb, tag, ev, st) == [h |-> cb, tag |-> tag, event |-> ev, status |-> st]

\* C1: when a call has returned, it holds no node lock: every locked node
\* mutex is owned by a thread that is inside a call on that node.
C1_LocksReleasedOnReturn ==
    \A n \in DOMAIN nodes :
        mtx[n] # NoOwner => Running(mtx[n]) /\ t[mtx[n]] = n

\* C2: the ids returned by the N successful creates are exactly 1..N.
C2_CreatedIdsAreOneToN ==
    Range(created) = 1..Len(created)

\* C3: a get<T>(id, offset) made right after set<T>(id, offset, v) returned
\* Ok, with the T bytes at offset inside the buffer, returns v.
C3_GetAfterSetReturnsValue ==
    \A th \in Threads :
        LET p == hist[th].prev
        IN  ( /\ Done(th) /\ op[th].name = "get" /\ t[th] # NoNode
              /\ p.name = "set" /\ p = last
              /\ p.node = t[th] /\ p.offset = op[th].offset /\ p.type = op[th].type
              /\ ~Outside(nodes[t[th]].data, op[th].offset, op[th].type) )
            => result[th] = Value(p.val)

\* C4: a get or set on an existing tag with offset >= elem_count * elem_size
\* returns BadParam to its caller, and the callback, if any was invoked, saw
\* Started, then one Aborted carrying BadParam, and no Completed.
C4_OutOfBoundsReportsBadParam ==
    \A th \in Threads :
        ( /\ Done(th) /\ op[th].name \in {"get", "set"} /\ t[th] # NoNode
          /\ op[th].offset >= Bound(t[th]) )
        => /\ result[th] = Status(PLCTAG_ERR_BAD_PARAM)
           /\ \/ events[th] = <<>>
              \/ \E cb \in Handlers :
                   events[th] =
                     << Ev(cb, op[th].tag,
                           IF op[th].name = "get" THEN PLCTAG_EVENT_READ_STARTED
                                                  ELSE PLCTAG_EVENT_WRITE_STARTED,
                           PLCTAG_STATUS_OK),
                        Ev(cb, op[th].tag, PLCTAG_EVENT_ABORTED, PLCTAG_ERR_BAD_PARAM) >>

\* C5: a read (timeout >= 0) of an existing tag never dies in a callback
\* invocation, and when it has returned it returned Ok and the events it
\* delivered are [ReadStarted, ReadCompleted] to one callback that was
\* registered at its start or by a registration running beside it; it
\* delivered none only if the tag could be without a callback in that time.
C5_ReadDeliversStartedCompleted ==
    \A th \in Threads :
        (op[th].name = "read" /\ t[th] # NoNode)
        => /\ pc[th] # "r_fault"
           /\ Done(th) =>
                /\ result[th] = Status(PLCTAG_STATUS_OK)
                /\ NULL \notin hist[th].allowed => events[th] # <<>>
                /\ \/ events[th] = <<>>
                   \/ \E cb \in hist[th].allowed \ {NULL} :
                        events[th] =
                          << Ev(cb, op[th].tag, PLCTAG_EVENT_READ_STARTED, PLCTAG_STATUS_OK),
                             Ev(cb, op[th].tag, PLCTAG_EVENT_READ_COMPLETED, PLCTAG_STATUS_OK) >>

\* C6: every callback invocation of a read, get or set goes to a handler that
\* the last finished registration on that tag (or one overlapping it, or one
\* running beside the access) installed; in particular never to a handler
\* replaced before the access started, and to none after an unregistration.
C6_OnlyCurrentCallbackInvoked ==
    \A th \in Threads :
        op[th].name \in Accesses =>
            \A i \in DOMAIN events[th] :
                events[th][i].h \in hist[th].allowed \ {NULL}

\* C6 witness: h1 was registered on a tag, then h2, and an access started
\* after that has invoked h2.
C6_Witness ==
    \E a, b \in Threads :
        /\ a # b
        /\ Done(b) /\ op[b].name = "register_callback" /\ op[b].cb = "h1"
        /\ result[b] = Status(PLCTAG_STATUS_OK)
        /\ Done(a) /\ op[a].name \in Accesses /\ t[a] = t[b]
        /\ hist[a].allowed = {"h2"}
        /\ events[a] # <<>>

\* the labels at which a thread's next step reads or writes the buffer or
\* the callback field of its node
AccessLabels ==
    {"cr_init", "r_check", "r_started", "r_completed", "g_started", "g_access",
     "g_completed", "s_started", "s_access", "s_completed", "rg_store"}

\* C7: a thread about to read or write a node's buffer or callback field
\* holds that node's lock.
C7_LockHeldOnAccess ==
    \A th \in Threads :
        pc[th] \in AccessLabels => mtx[t[th]] = th

\* C8: every node a lookup returned had its name, sizes and buffer set.
C8_LookupFindsOnlyCompleteNodes ==
    \A th \in Threads : hist[th].complete

\* thread th is between the Started event and the Completed/Aborted event of
\* an access
InFlight(th) ==
    Running(th) /\ op[th].name \in Accesses /\ events[th] # <<>>

\* C9: two accesses of one tag are never both between their Started and
\* their Completed/Aborted event.
C9_SameTagAccessesExclusive ==
    \A a, b \in Threads :
        (a # b /\ InFlight(a) /\ InFlight(b)) => t[a] # t[b]

\* C10: a call with an id that no create has returned gets NotFound, invokes
\* no callback and reaches no node (so locks none).
C10_UnknownIdReportsNotFound ==
    \A th \in Threads :
        ( /\ Done(th)
          /\ op[th].name \in {"read", "get", "set", "status", "register_callback",
                              "unregister_callback"}
          /\ op[th].timeout >= 0
          /\ op[th].tag \notin Range(created) )
        => /\ result[th] = Status(PLCTAG_ERR_NOT_FOUND)
           /\ events[th] = <<>>
           /\ t[th] = NoNode


\* the attribute string has no name key, or a token without '=' that is not
\* the literal protocol
Offending(attrib) ==
    \/ \A i \in DOMAIN attrib : ~(attrib[i].key = "name" /\ attrib[i].val # NoEq)
    \/ \E i \in DOMAIN attrib : attrib[i].val = NoEq /\ attrib[i].key # "protocol"

\* C11: a create whose attribute string has no name key or holds a malformed
\* token returns BadParam at once, without allocating or inserting a node.
C11_BadAttribFailsBadParam ==
    \A th \in Threads :
        (op[th].name = "create" /\ Offending(op[th].attrib))
        => /\ pc[th] = "idle"
           /\ result[th] = Status(PLCTAG_ERR_BAD_PARAM)
           /\ t[th] = NoNode

\* C12: a successful create returns the id of the node it made (the n-th
\* create of a lone caller returns n: 1 on the empty registry, then the
\* maximum + 1); the node found under that id carries it and has the sizes of
\* the attribute string, or 2 and 1.
C12_CreateReturnsNewId ==
    \A th \in Threads :
        (Done(th) /\ op[th].name = "create" /\ t[th] # NoNode)
        => LET n == t[th]
               st == ParseAttrib(op[th].attrib)
           IN  /\ result[th] = Status(n)
               /\ n \in tag_tree_lookup(n)
               /\ nodes[n].tag_id = n
               /\ nodes[n].elem_size = st.elem_size
               /\ nodes[n].elem_count = st.elem_count

IsBareProtocol(kv) == kv.key = "protocol" /\ kv.val = NoEq
HasBareProtocol(attrib) == \E i \in DOMAIN attrib : IsBareProtocol(attrib[i])
NotBareProtocol(kv) == ~IsBareProtocol(kv)
WithoutProtocol(attrib) == SelectSeq(attrib, NotBareProtocol)

\* C13: a create on a string with a bare protocol token and a name runs to
\* its end like the create on the string without that token: same return
\* value, same sizes of the node.
C13_BareProtocolIgnored ==
    \A th \in Threads :
        ( /\ op[th].name = "create" /\ HasBareProtocol(op[th].attrib)
          /\ ~Offending(op[th].attrib) )
        => LET st == ParseAttrib(WithoutProtocol(op[th].attrib))
           IN  /\ pc[th] # "cr_fault"
               /\ Done(th) =>
                    /\ result[th] = Status(st.ret)
                    /\ t[th] # NoNode
                    /\ nodes[t[th]].elem_size = st.elem_size
                    /\ nodes[t[th]].elem_count = st.elem_count


StartedOf(nm) == IF nm = "get" THEN PLCTAG_EVENT_READ_STARTED
                               ELSE PLCTAG_EVENT_WRITE_STARTED
CompletedOf(nm) == IF nm = "get" THEN PLCTAG_EVENT_READ_COMPLETED
                                 ELSE PLCTAG_EVENT_WRITE_COMPLETED

\* C14: a get or set on an existing (fully created) tag goes Idle -> Started
\* -> (Aborted | Completed) -> Idle.  Before the lock is taken no event was
\* fired; from the bounds check on, a registered callback has received
\* exactly Started; the buffer is accessed only in bounds, after Started and
\* before any terminal event; at the return the callback has received
\* Started and then exactly one of Completed (status Ok, offset in bounds)
\* or Aborted (offset out of bounds); and in bounds the call returns its
\* success value: Ok for a set, the value read for a get.
C14_EventsFollowStateMachine ==
    \A th \in Threads :
        (op[th].name \in {"get", "set"} /\ t[th] # NoNode /\ hist[th].complete)
        => LET n == t[th]
               o == op[th]
               cb == nodes[n].cb
               inb == o.offset < Bound(n)
               S(h) == Ev(h, o.tag, StartedOf(o.name), PLCTAG_STATUS_OK)
               A(h) == Ev(h, o.tag, PLCTAG_EVENT_ABORTED, PLCTAG_ERR_BAD_PARAM)
               C(h) == Ev(h, o.tag, CompletedOf(o.name), PLCTAG_STATUS_OK)
           IN  /\ pc[th] \in {"g_lock", "s_lock", "g_started", "s_started"}
                    => events[th] = <<>>
               /\ pc[th] \in {"g_access", "s_access", "g_completed", "s_completed"}
                    => events[th] = IF cb = NULL THEN <<>> ELSE << S(cb) >>
               /\ pc[th] \in {"g_completed", "s_completed"} => inb
               /\ Done(th) =>
                    /\ NULL \notin hist[th].allowed => events[th] # <<>>
                    /\ \/ events[th] = <<>>
                       \/ \E h \in hist[th].allowed \ {NULL} :
                            events[th] = IF inb THEN << S(h), C(h) >>
                                                ELSE << S(h), A(h) >>
                    /\ inb => result[th] = IF o.name = "set"
                                           THEN Status(PLCTAG_STATUS_OK)
                                           ELSE Value(o.val)

\* C14 witness: one get or set has told a registered callback Started and
\* Completed and has returned, and another has told it Started and Aborted.
C14_Witness ==
    \E th, y \in Threads :
        /\ Done(th) /\ op[th].name \in {"get", "set"} /\ t[th] # NoNode
        /\ hist[th].complete /\ NULL \notin hist[th].allowed
        /\ Len(events[th]) = 2
        /\ events[th][2].event = CompletedOf(op[th].name)
        /\ Done(y) /\ op[y].name \in {"get", "set"} /\ t[y] # NoNode
        /\ hist[y].complete
        /\ Len(events[y]) = 2
        /\ events[y][2].event = PLCTAG_EVENT_ABORTED


\* C15: every fully created node of the registry has elem_size > 0,
\* elem_count > 0 and a buffer of exactly elem_size * elem_count bytes.
C15_NodeSizesPositive ==
    \A n \in DOMAIN nodes :
        Complete(n) =>
            /\ nodes[n].elem_size > 0
            /\ nodes[n].elem_count > 0
            /\ Len(nodes[n].data) = nodes[n].elem_size * nodes[n].elem_count


\* C16: a read with a negative timeout returns BadParam at once, whether or
\* not its tag id exists, without looking the tag up and without any
\* callback event.
C16_NegativeTimeoutBadParam ==
    \A th \in Threads :
        (op[th].name = "read" /\ op[th].timeout < 0)
        => /\ pc[th] = "idle"
           /\ result[th] = Status(PLCTAG_ERR_BAD_PARAM)
           /\ events[th] = <<>>
           /\ t[th] = NoNode

\* C16 witness: a read with a negative timeout has returned BadParam on a
\* tag that exists and has a callback registered.
C16_Witness ==
    \E th \in Threads :
        /\ Done(th) /\ op[th].name = "read" /\ op[th].timeout < 0
        /\ result[th] = Status(PLCTAG_ERR_BAD_PARAM)
        /\ \E n \in DOMAIN nodes :
             /\ Complete(n) /\ nodes[n].tag_id = op[th].tag
             /\ nodes[n].cb # NULL


\* the labels at which a get, set or (un)registration waits for its node's
\* mutex, and those at which it holds it
Waiting == {"g_lock", "s_lock", "rg_lock"}
Holding == {"g_started", "g_access", "g_completed", "s_started", "s_access",
            "s_completed", "rg_store", "rg_unlock"}

\* a step of thread th among concurrent callers
ThreadStep(th) ==
    \/ plc_tag_create(th, Concurrent)
    \/ plc_tag_read(th, Concurrent)
    \/ plcstub_get_impl(th, Concurrent)
    \/ plcstub_set_impl(th, Concurrent)
    \/ plc_tag_register_callback(th, Concurrent)
    \/ plc_tag_status(th, Concurrent)

\* nothing but the mutex of its own node being taken stops a get, set or
\* (un)registration
OnlyOwnLockBlocks ==
    \A th \in Threads :
        (~halted /\ pc[th] \in Waiting \cup Holding)
        => \/ pc[th] \in Waiting /\ mtx[t[th]] # NoOwner
           \/ ENABLED ThreadStep(th)

\* a node's mutex is taken and released only by steps of calls on that node
LockTouchedByOwnCalls ==
    \A n \in DOMAIN mtx :
        mtx'[n] # mtx[n]
        => \E th \in Threads :
             /\ t[th] = n /\ pc'[th] # pc[th]
             /\ mtx[n] = th \/ mtx'[n] = th

\* C17: calls on different tags never contend on a node lock: the mutex of
\* a node changes hands only in steps of calls on that very node, and a get,
\* set or (un)registration can always take its next step unless it waits for
\* the mutex of its own node, whatever calls on other nodes are doing.
C17_NoCrossTagContention ==
    []OnlyOwnLockBlocks /\ [][LockTouchedByOwnCalls]_vars

\* C17 witness: two threads are inside get, set or (un)registration calls on
\* two different nodes and each holds the mutex of its node.
C17_Witness ==
    \E a, b \in Threads :
        /\ a # b /\ ~halted
        /\ pc[a] \in Holding /\ pc[b] \in Holding
        /\ t[a] # t[b]
        /\ mtx[t[a]] = a /\ mtx[t[b]] = b


\* Fair scheduling of the concurrent callers: a thread whose next step stays
\* possible takes it (a runnable thread is scheduled; a thread waiting at
\* MTX_LOCK runs once the mutex stays free).
SpecFair == Init /\ [][Next]_vars /\ \A th \in Threads : WF_vars(ThreadStep(th))

\* C18: a get, set or (un)registration on an existing tag eventually
\* returns.  In the form a finite run refutes: whenever such a call waits for
\* the mutex of its node, the mutex is free or its owner is another thread
\* that is still inside its call on that node (or ending the creation of
\* it); a mutex whose owner has returned, or is the waiting thread itself, is
\* never released, and under the fair scheduling of SpecFair the waiting
\* call never returns.
C18_WaitingCallCanProceed ==
    \A th \in Threads :
        (~halted /\ pc[th] \in Waiting /\ hist[th].complete)
        => LET h == mtx[t[th]]
           IN  \/ h = NoOwner
               \/ /\ h # th
                  /\ pc[h] \in Holding \cup {"cr_unlock"}
                  /\ t[h] = t[th]

\* C19: whenever the bounds check of a get or set has passed and the
\* accessor was invoked, the bytes it touched lie inside the buffer:
\* 0 <= offset and offset + sizeof(T) <= elem_size * elem_count.
C19_AccessInsideBuffer ==
    \A th \in Threads :
        pc[th] \in {"g_completed", "s_completed"}
        => ~Outside(nodes[t[th]].data, op[th].offset, op[th].type)


\* C20: the buffer, sizes and callback of a node change only in a create or
\* (un)registration on it, or in the store of a successful set on it, which
\* changes nothing of the node but bytes [offset, offset + sizeof(T)) of its
\* buffer; so get, read, status, failing calls and sets on other tags leave
\* the node as it was.
C20_Frame ==
    [][ \A n \in DOMAIN nodes :
          nodes'[n] # nodes[n]
          => \E th \in Threads :
               /\ t[th] = n /\ pc'[th] # pc[th]
               /\ \/ pc[th] \in {"cr_init", "rg_store"}
                  \/ /\ pc[th] = "s_access" /\ pc'[th] = "s_completed"
                     /\ nodes'[n] = [nodes[n] EXCEPT !.data = nodes'[n].data]
                     /\ Len(nodes'[n].data) = Len(nodes[n].data)
                     /\ \A i \in 1..Len(nodes[n].data) :
                          nodes'[n].data[i] # nodes[n].data[i]
                          => /\ i > op[th].offset
                             /\ i <= op[th].offset + SizeOf(op[th].type) ]_vars

=============================================================================
